---- MODULE Spec2Model ----
(***************************************************************************)
(* Host-side shape normalisation and validation of feature Lp pooling      *)
(* (src/cuda/FeatureLPPoolingHost.cpp).  A tensor is its sequence of sizes *)
(* and its sequence of strides; the element data and the device kernel are *)
(* not modelled, only the views handed to the kernel.                      *)
(***************************************************************************)
EXTENDS Integers, Sequences, FiniteSets, TLC

VARIABLES output, gradInput, producer, call, ncalls

vars == <<output, gradInput, producer, call, ncalls>>

(***************************************************************************)
(* Program constants.                                                      *)
(***************************************************************************)
MinWidth == 2
MaxWidth == 16
MinStride == 1
MaxStride == 4
CanonicalDim == 4

(***************************************************************************)
(* Bounds of the model.                                                    *)
(***************************************************************************)
MaxCalls == 2
CallMaxDim == 3
WideMaxFeature == 18

(***************************************************************************)
(* Tensors.                                                                *)
(***************************************************************************)
RECURSIVE Prod(_)
Prod(s) == IF s = <<>> THEN 1 ELSE Head(s) * Prod(Tail(s))

\* Row-major strides, as THCudaTensor_resizeNd lays a tensor out.
Contig(sizes) ==
  [size |-> sizes,
   stride |-> [i \in 1..Len(sizes) |-> Prod(SubSeq(sizes, i + 1, Len(sizes)))]]

\* The same sizes over column-major strides: a transposed (strided) view.
ColMajor(sizes) ==
  [size |-> sizes,
   stride |-> [i \in 1..Len(sizes) |-> Prod(SubSeq(sizes, 1, i - 1))]]

EmptyTensor == [size |-> <<>>, stride |-> <<>>]

NoView == [size |-> <<>>, stride |-> <<>>]

nDimension(t) == Len(t.size)

\* C's integer division truncates toward zero.
TruncDiv(a, b) ==
  IF b = 0 THEN 0
  ELSE IF (a >= 0) = (b > 0)
       THEN (IF a >= 0 THEN a ELSE -a) \div (IF b > 0 THEN b ELSE -b)
       ELSE -((IF a >= 0 THEN a ELSE -a) \div (IF b > 0 THEN b ELSE -b))

\* outputSize rounding the quotient up instead of down.
outputSize_RoundUp(inputSize, width, stride) ==
  TruncDiv(inputSize - width + stride - 1, stride) + 1

outputSize(inputSize, width, stride) ==
  TruncDiv(inputSize - width, stride) + 1

\* DeviceTensor::upcastOuter: new leading axes of size 1 whose stride is
\* size[0] * stride[0].
upcastOuter(v, newDim) ==
  LET shift == newDim - Len(v.size) IN
  [size |-> [i \in 1..newDim |-> IF i <= shift THEN 1 ELSE v.size[i - shift]],
   stride |-> [i \in 1..newDim |->
                 IF i <= shift THEN v.size[1] * v.stride[1]
                 ELSE v.stride[i - shift]]]

\* DeviceTensor::upcastInner: new trailing axes of size 1 and stride 1.
upcastInner(v, newDim) ==
  [size |-> [i \in 1..newDim |-> IF i <= Len(v.size) THEN v.size[i] ELSE 1],
   stride |-> [i \in 1..newDim |-> IF i <= Len(v.stride) THEN v.stride[i] ELSE 1]]

\* upcast with the unbatched rank-2 case laid out as the batched one.
upcast_Rank2AsBatch(t, batchMode) ==
  LET inputDim == nDimension(t) IN
  IF inputDim = 1 THEN
    (IF batchMode THEN NoView
     ELSE upcastInner(upcastOuter(t, 2), CanonicalDim))
  ELSE IF inputDim = 2 THEN upcastInner(t, CanonicalDim)
  ELSE IF inputDim = 3 THEN
    (IF batchMode THEN upcastInner(t, CanonicalDim)
     ELSE upcastOuter(t, CanonicalDim))
  ELSE IF inputDim = 4 THEN
    (IF batchMode THEN [size |-> t.size, stride |-> t.stride]
     ELSE NoView)
  ELSE NoView

upcast(t, batchMode) ==
  LET inputDim == nDimension(t) IN
  IF inputDim = 1 THEN
    (IF batchMode THEN NoView
     ELSE upcastInner(upcastOuter(t, 2), CanonicalDim))
  ELSE IF inputDim = 2 THEN
    (IF batchMode THEN upcastInner(t, CanonicalDim)
     ELSE upcastInner(upcastOuter(t, 3), CanonicalDim))
  ELSE IF inputDim = 3 THEN
    (IF batchMode THEN upcastInner(t, CanonicalDim)
     ELSE upcastOuter(t, CanonicalDim))
  ELSE IF inputDim = 4 THEN
    (IF batchMode THEN [size |-> t.size, stride |-> t.stride]
     ELSE NoView)
  ELSE NoView

\* THCudaTensor_resizeNd: a tensor that already has the sizes is left as it
\* is; otherwise it becomes a row-major tensor of the sizes.
\* resizeNd leaving alone any tensor that already has the rank.
resizeNd_SameRank(t, sizes) ==
  IF Len(t.size) = Len(sizes) THEN t ELSE Contig(sizes)

resizeNd(t, sizes) == IF t.size = sizes THEN t ELSE Contig(sizes)

\* resizeForOutput always reading the feature size from raw axis 0.
resizeForOutput_Axis0(toResize, input, batchMode, width, stride) ==
  LET inputDim == nDimension(input)
      outSize == outputSize(input.size[1], width, stride)
  IN
  IF inputDim = 1 THEN resizeNd(toResize, <<outSize>>)
  ELSE IF inputDim = 2 THEN
    (IF batchMode THEN resizeNd(toResize, <<input.size[1], outSize>>)
     ELSE resizeNd(toResize, <<outSize, input.size[2]>>))
  ELSE IF inputDim = 3 THEN
    (IF batchMode
     THEN resizeNd(toResize, <<input.size[1], outSize, input.size[3]>>)
     ELSE resizeNd(toResize, <<outSize, input.size[2], input.size[3]>>))
  ELSE IF inputDim = 4 THEN
    resizeNd(toResize,
             <<input.size[1], outSize, input.size[3], input.size[4]>>)
  ELSE toResize

resizeForOutput(toResize, input, batchMode, width, stride) ==
  LET inputDim == nDimension(input)
      outSize == IF batchMode
                 THEN outputSize(input.size[2], width, stride)
                 ELSE outputSize(input.size[1], width, stride)
  IN
  IF inputDim = 1 THEN resizeNd(toResize, <<outSize>>)
  ELSE IF inputDim = 2 THEN
    (IF batchMode THEN resizeNd(toResize, <<input.size[1], outSize>>)
     ELSE resizeNd(toResize, <<outSize, input.size[2]>>))
  ELSE IF inputDim = 3 THEN
    (IF batchMode
     THEN resizeNd(toResize, <<input.size[1], outSize, input.size[3]>>)
     ELSE resizeNd(toResize, <<outSize, input.size[2], input.size[3]>>))
  ELSE IF inputDim = 4 THEN
    resizeNd(toResize,
             <<input.size[1], outSize, input.size[3], input.size[4]>>)
  ELSE toResize

\* resize keeping a tensor that already has as many elements.
resize_SameCount(toResize, src) ==
  LET inputDim == nDimension(src) IN
  IF inputDim \in 1..4 /\ Prod(toResize.size) # Prod(src.size)
  THEN resizeNd(toResize, src.size) ELSE toResize

resize(toResize, src) ==
  LET inputDim == nDimension(src) IN
  IF inputDim \in 1..4 THEN resizeNd(toResize, src.size) ELSE toResize

\* isSameSizeAndStride comparing the sizes alone.
isSameSize(a, b) == a.size = b.size

isSameSizeAndStride(a, b) == a.size = b.size /\ a.stride = b.stride

(***************************************************************************)
(* Errors: the message luaL_error raises, and the kind it stands for.      *)
(***************************************************************************)
NoError == ""
MsgBatchRank == "batch_mode: input must be 2-4 dimensions"
MsgNoBatchRank == "no batch_mode: input must be 1-3 dimensions"
MsgFeature == "input: feature dimension must be >= width"
MsgWidth == "width: must be between 2 -> 16"
MsgStride == "stride: must be between 1 -> 4"
MsgImproper == "output and/or gradOutput are improperly sized"
MsgSizes == "output and gradOutput sizes do not match"
MsgInOut == "input and output sizes do not match with respect to width and stride"

ErrorKind(msg) ==
  IF msg = NoError THEN "ok"
  ELSE IF msg \in {MsgBatchRank, MsgNoBatchRank, MsgImproper} THEN "UnsupportedRank"
  ELSE IF msg \in {MsgWidth, MsgStride} THEN "InvalidParameter"
  ELSE "ShapeMismatch"

\* updateOutput's checks with the two range checks made first.
updateOutput_validate_RangeFirst(inputTH, width, stride, batchMode) ==
  LET input == upcast(inputTH, batchMode) IN
  IF input = NoView
  THEN (IF batchMode THEN MsgBatchRank ELSE MsgNoBatchRank)
  ELSE IF width < MinWidth \/ width > MaxWidth THEN MsgWidth
  ELSE IF stride < MinStride \/ stride > MaxStride THEN MsgStride
  ELSE IF input.size[2] < width THEN MsgFeature
  ELSE NoError

\* The checks of updateOutput, in the order the code makes them; luaL_error
\* does not return, so the first failing check decides.
updateOutput_validate(inputTH, width, stride, batchMode) ==
  LET input == upcast(inputTH, batchMode) IN
  IF input = NoView
  THEN (IF batchMode THEN MsgBatchRank ELSE MsgNoBatchRank)
  ELSE IF input.size[2] < width THEN MsgFeature
  ELSE IF width < MinWidth \/ width > MaxWidth THEN MsgWidth
  ELSE IF stride < MinStride \/ stride > MaxStride THEN MsgStride
  ELSE NoError

\* The checks of updateGradInput, in the order the code makes them.
updateGradInput_validate(gradOutputTH, inputTH, outputTH, width, stride, batchMode) ==
  LET input == upcast(inputTH, batchMode)
      gradOutputUpcast == upcast(gradOutputTH, batchMode)
      outputUpcast == upcast(outputTH, batchMode)
  IN
  IF input = NoView
  THEN (IF batchMode THEN MsgBatchRank ELSE MsgNoBatchRank)
  ELSE IF input.size[2] < width THEN MsgFeature
  ELSE IF width < MinWidth \/ width > MaxWidth THEN MsgWidth
  ELSE IF stride < MinStride \/ stride > MaxStride THEN MsgStride
  ELSE IF gradOutputUpcast = NoView \/ outputUpcast = NoView THEN MsgImproper
  ELSE IF ~isSameSizeAndStride(outputUpcast, gradOutputUpcast) THEN MsgSizes
  ELSE IF outputSize(input.size[2], width, stride) # outputUpcast.size[2]
  THEN MsgInOut
  ELSE NoError

NoProducer == [made |-> FALSE, input |-> EmptyTensor, width |-> 0, stride |-> 0,
               batchMode |-> FALSE]

NoCall ==
  [op |-> "none", input |-> EmptyTensor, gradOutput |-> EmptyTensor,
   width |-> 0, stride |-> 0, batchMode |-> FALSE,
   outputBefore |-> EmptyTensor, gradInputBefore |-> EmptyTensor,
   outcome |-> "none", msg |-> NoError, inputUpcast |-> NoView,
   kInput |-> NoView, kOutput |-> NoView,
   kGradOutput |-> NoView, kGradInput |-> NoView]

\* updateOutput resizing the output as soon as the input has a view, before
\* the feature size, the width and the stride are checked.
updateOutput_result_ResizeFirst(outputTH, inputTH, width, stride, batchMode) ==
  LET err == updateOutput_validate(inputTH, width, stride, batchMode)
      hasView == upcast(inputTH, batchMode) # NoView
      resized == IF hasView
                 THEN resizeForOutput(outputTH, inputTH, batchMode, width, stride)
                 ELSE outputTH
      outputUpcast == upcast(resized, batchMode)
  IN
  IF err # NoError
  THEN [outcome |-> ErrorKind(err), msg |-> err, output |-> resized,
        kInput |-> NoView, kOutput |-> NoView]
  ELSE IF outputUpcast = NoView
  THEN [outcome |-> "AssertionFailure", msg |-> NoError, output |-> resized,
        kInput |-> NoView, kOutput |-> NoView]
  ELSE [outcome |-> "ok", msg |-> NoError, output |-> resized,
        kInput |-> upcast(inputTH, batchMode), kOutput |-> outputUpcast]

\* What one call of updateOutput does to the module's output tensor `outputTH`
\* and what it hands to runFeatureLPPoolingUpdateOutput.
updateOutput_result(outputTH, inputTH, width, stride, batchMode) ==
  LET err == updateOutput_validate(inputTH, width, stride, batchMode)
      resized == resizeForOutput(outputTH, inputTH, batchMode, width, stride)
      outputUpcast == upcast(resized, batchMode)
  IN
  IF err # NoError
  THEN [outcome |-> ErrorKind(err), msg |-> err, output |-> outputTH,
        kInput |-> NoView, kOutput |-> NoView]
  ELSE IF outputUpcast = NoView
  THEN [outcome |-> "AssertionFailure", msg |-> NoError, output |-> resized,
        kInput |-> NoView, kOutput |-> NoView]
  ELSE [outcome |-> "ok", msg |-> NoError, output |-> resized,
        kInput |-> upcast(inputTH, batchMode), kOutput |-> outputUpcast]

featureLPPooling_updateOutput(inputTH, width, stride, batchMode) ==
  LET r == updateOutput_result(output, inputTH, width, stride, batchMode) IN
  /\ output' = r.output
  /\ UNCHANGED gradInput
  /\ ncalls' = ncalls + 1
  /\ producer' = IF r.outcome = "ok"
                 THEN [made |-> TRUE, input |-> inputTH, width |-> width,
                       stride |-> stride, batchMode |-> batchMode]
                 ELSE producer
  /\ call' = [op |-> "forward", input |-> inputTH, gradOutput |-> EmptyTensor,
              width |-> width, stride |-> stride, batchMode |-> batchMode,
              outputBefore |-> output, gradInputBefore |-> gradInput,
              outcome |-> r.outcome, msg |-> r.msg,
              inputUpcast |-> upcast(inputTH, batchMode),
              kInput |-> r.kInput, kOutput |-> r.kOutput,
              kGradOutput |-> NoView, kGradInput |-> NoView]

featureLPPooling_updateGradInput(gradOutputTH, inputTH, width, stride, batchMode) ==
  LET err == updateGradInput_validate(gradOutputTH, inputTH, output,
                                      width, stride, batchMode)
      resized == resize(gradInput, inputTH)
      gradInputUpcast == upcast(resized, batchMode)
      passed == err = NoError
      found == passed /\ gradInputUpcast # NoView
  IN
  /\ gradInput' = IF passed THEN resized ELSE gradInput
  /\ UNCHANGED <<output, producer>>
  /\ ncalls' = ncalls + 1
  /\ call' = [op |-> "backward", input |-> inputTH, gradOutput |-> gradOutputTH,
              width |-> width, stride |-> stride, batchMode |-> batchMode,
              outputBefore |-> output, gradInputBefore |-> gradInput,
              outcome |-> IF ~passed THEN ErrorKind(err)
                          ELSE IF found THEN "ok" ELSE "AssertionFailure",
              msg |-> err,
              inputUpcast |-> upcast(inputTH, batchMode),
              kInput |-> IF found THEN upcast(inputTH, batchMode) ELSE NoView,
              kOutput |-> IF found THEN upcast(output, batchMode) ELSE NoView,
              kGradOutput |-> IF found THEN upcast(gradOutputTH, batchMode)
                              ELSE NoView,
              kGradInput |-> IF found THEN gradInputUpcast ELSE NoView]

(***************************************************************************)
(* The tensors the caller passes.                                          *)
(***************************************************************************)
\* The sizes of the tensors of ranks 1..CanonicalDim with every axis in
\* 1..maxDim and at most maxElems elements.
Shapes(maxDim, maxElems) ==
  UNION {{s \in [1..r -> 1..maxDim] : Prod(s) <= maxElems} : r \in 1..CanonicalDim}

\* The ranks on either side of the supported ones.
OtherRanks == {<<>>, [i \in 1..(CanonicalDim + 1) |-> 1]}

Bump(sizes) ==
  IF sizes = <<>> THEN <<2>> ELSE [sizes EXCEPT ![1] = sizes[1] + 1]

\* gradOutput as the caller may pass it for a module whose output is `out`:
\* the very tensor, fresh row-major or transposed tensors of its sizes, one
\* of other sizes, one of another rank, and the empty tensor.
GradOutputsFor(out) ==
  {out, Contig(out.size), ColMajor(out.size), Contig(Bump(out.size)),
   Contig(Append(out.size, 1)), EmptyTensor}

\* A session: a freshly constructed module, then up to MaxCalls calls on
\* tensors whose axes are below, at and above the smallest width; the layer
\* above passes a fresh gradient of the output's sizes or of others.
SessShapes == Shapes(MinWidth + 1, MinWidth + 1)
SessInputs == {Contig(s) : s \in SessShapes}
SessWidths == (MinWidth - 1)..MinWidth
SessStrides == {MinStride}
SessGradOutputsFor(out) == {Contig(out.size), Contig(Bump(out.size))}

Init ==
  /\ output = EmptyTensor
  /\ gradInput = EmptyTensor
  /\ producer = NoProducer
  /\ call = NoCall
  /\ ncalls = 0

Forward ==
  /\ ncalls < MaxCalls
  /\ \E inputTH \in SessInputs, width \in SessWidths, stride \in SessStrides,
        batchMode \in BOOLEAN :
       featureLPPooling_updateOutput(inputTH, width, stride, batchMode)

Backward ==
  /\ ncalls < MaxCalls
  /\ \E inputTH \in SessInputs, gradOutputTH \in SessGradOutputsFor(output),
        width \in SessWidths, stride \in SessStrides, batchMode \in BOOLEAN :
       featureLPPooling_updateGradInput(gradOutputTH, inputTH, width, stride,
                                        batchMode)

Next == Forward \/ Backward

Spec == Init /\ [][Next]_vars

\* One call on a module whose output and gradInput fields hold any tensors.
CallShapes == Shapes(CallMaxDim, CallMaxDim + 1) \cup OtherRanks
CallInputs == {Contig(s) : s \in CallShapes}
CallTensors == CallInputs \cup {ColMajor(s) : s \in CallShapes}
CallGradInputs == {EmptyTensor, ColMajor(<<1, 2, 1, 1>>)}
CallWidths == (MinWidth - 1)..CallMaxDim
CallStrides == (MinStride - 1)..(MinStride + 1)

InitCall ==
  /\ output \in CallTensors
  /\ gradInput \in CallGradInputs
  /\ producer = NoProducer
  /\ call = NoCall
  /\ ncalls = 0

CallForward ==
  /\ ncalls = 0
  /\ \E inputTH \in CallInputs, width \in CallWidths, stride \in CallStrides,
        batchMode \in BOOLEAN :
       featureLPPooling_updateOutput(inputTH, width, stride, batchMode)

CallBackward ==
  /\ ncalls = 0
  /\ \E inputTH \in CallInputs, gradOutputTH \in GradOutputsFor(output),
        width \in CallWidths, stride \in CallStrides, batchMode \in BOOLEAN :
       featureLPPooling_updateGradInput(gradOutputTH, inputTH, width, stride,
                                        batchMode)

NextCall == CallForward \/ CallBackward

SpecCall == InitCall /\ [][NextCall]_vars

\* One call over the whole range of width and stride, on a feature vector
\* (alone, or under a batch axis of size 1, or with one extra axis of size 1).
WideShapes ==
  UNION {{<<n>>, <<1, n>>, <<n, 1>>} : n \in 1..WideMaxFeature}
WideInputs == {Contig(s) : s \in WideShapes}
WideWidths == (MinWidth - 3)..(MaxWidth + 1)
WideStrides == (MinStride - 2)..(MaxStride + 1)
WideOutputs == {EmptyTensor, Contig(<<1>>), Contig(<<1, 2>>)}

InitWide ==
  /\ output \in WideOutputs
  /\ gradInput = EmptyTensor
  /\ producer = NoProducer
  /\ call = NoCall
  /\ ncalls = 0

WideForward ==
  /\ ncalls = 0
  /\ \E inputTH \in WideInputs, width \in WideWidths, stride \in WideStrides,
        batchMode \in BOOLEAN :
       featureLPPooling_updateOutput(inputTH, width, stride, batchMode)

WideBackward ==
  /\ ncalls = 0
  /\ \E inputTH \in WideInputs, gradOutputTH \in GradOutputsFor(output),
        width \in WideWidths, stride \in WideStrides, batchMode \in BOOLEAN :
       featureLPPooling_updateGradInput(gradOutputTH, inputTH, width, stride,
                                        batchMode)

NextWide == WideForward \/ WideBackward

SpecWide == InitWide /\ [][NextWide]_vars

(***************************************************************************)
(* Properties.                                                             *)
(***************************************************************************)
Called == call.op # "none"
Failed == call.outcome \in {"UnsupportedRank", "InvalidParameter", "ShapeMismatch"}
HasView == call.inputUpcast # NoView
KernelInvoked == call.kInput # NoView
FeatureSize == call.inputUpcast.size[2]
WidthInRange == call.width >= 2 /\ call.width <= 16
StrideInRange == call.stride >= 1 /\ call.stride <= 4
\* The raw axis that is the feature axis.
FeatureAxis == IF call.batchMode THEN 2 ELSE 1
\* floor((n - w) / s) + 1
FloorOutputSize(n, w, s) == ((n - w) \div s) + 1

\* The canonical sizes the specification gives for raw sizes d, or <<>>.
CanonicalSizes(d, batchMode) ==
  IF Len(d) = 1 /\ ~batchMode THEN <<1, d[1], 1, 1>>
  ELSE IF Len(d) = 2 /\ batchMode THEN <<d[1], d[2], 1, 1>>
  ELSE IF Len(d) = 2 /\ ~batchMode THEN <<1, d[1], d[2], 1>>
  ELSE IF Len(d) = 3 /\ batchMode THEN <<d[1], d[2], d[3], 1>>
  ELSE IF Len(d) = 3 /\ ~batchMode THEN <<1, d[1], d[2], d[3]>>
  ELSE IF Len(d) = 4 /\ batchMode THEN <<d[1], d[2], d[3], d[4]>>
  ELSE <<>>

\* C1: the canonical view of the input is decided by its rank and batchMode:
\* it has the sizes of the table above, and there is none exactly for rank 1
\* batched, rank 4 unbatched and the ranks outside 1..4, where the call fails
\* with UnsupportedRank and the message of its batchMode.
C1_Upcast ==
  Called =>
    IF CanonicalSizes(call.input.size, call.batchMode) = <<>>
    THEN /\ call.inputUpcast = NoView
         /\ call.outcome = "UnsupportedRank"
         /\ call.msg = IF call.batchMode
                       THEN "batch_mode: input must be 2-4 dimensions"
                       ELSE "no batch_mode: input must be 1-3 dimensions"
    ELSE /\ call.inputUpcast.size =
              CanonicalSizes(call.input.size, call.batchMode)
         /\ call.msg \notin {MsgBatchRank, MsgNoBatchRank}

C1_Witness ==
  /\ call.op = "forward"
  /\ ~call.batchMode
  /\ call.input.size = <<2, 1, 2>>
  /\ call.inputUpcast.size = <<1, 2, 1, 2>>

\* C2: after a successful forward the output has the rank of the input, its
\* feature axis has floor((N - W)/S) + 1 elements, every other axis has the
\* size of the input's, the output has a canonical view (the assertion holds)
\* and its canonical batch, extra1 and extra2 sizes are the input's.
C2_ForwardShape ==
  call.op = "forward" =>
    /\ call.outcome # "AssertionFailure"
    /\ call.outcome = "ok" =>
         /\ Len(output.size) = Len(call.input.size)
         /\ \A i \in 1..Len(output.size) :
              output.size[i] =
                IF i = FeatureAxis
                THEN FloorOutputSize(call.input.size[i], call.width, call.stride)
                ELSE call.input.size[i]
         /\ upcast(output, call.batchMode) # NoView
         /\ call.kOutput = upcast(output, call.batchMode)
         /\ \A a \in {1, 3, 4} : call.kOutput.size[a] = call.kInput.size[a]

C2_Witness ==
  /\ call.op = "forward"
  /\ call.outcome = "ok"
  /\ call.batchMode
  /\ call.input.size = <<1, 3, 1>>
  /\ call.stride = 1
  /\ output.size = <<1, 2, 1>>
  /\ Len(call.outputBefore.size) = 5

\* C3 as claimed: a call whose input has a view fails with InvalidParameter
\* whenever the width is outside 2..16 or the stride is outside 1..4.
C3_Original ==
  (Called /\ HasView /\ FeatureSize >= 1) =>
    /\ ~WidthInRange => call.outcome = "InvalidParameter"
    /\ ~StrideInRange => call.outcome = "InvalidParameter"

\* C3, amended: a call whose input has a view and whose feature size is below
\* the width fails with ShapeMismatch whatever the width and the stride are;
\* when the feature size is at least the width, a width outside 2..16 fails
\* with InvalidParameter (the width-range error) and otherwise a stride
\* outside 1..4 fails with InvalidParameter (the stride-range error).
C3_RangeErrors ==
  (Called /\ HasView /\ FeatureSize >= 1) =>
    IF FeatureSize < call.width
    THEN call.outcome = "ShapeMismatch" /\ call.msg = MsgFeature
    ELSE /\ ~WidthInRange =>
              call.outcome = "InvalidParameter" /\ call.msg = MsgWidth
         /\ (WidthInRange /\ ~StrideInRange) =>
              call.outcome = "InvalidParameter" /\ call.msg = MsgStride

C3_Witness ==
  /\ call.op = "backward"
  /\ HasView
  /\ call.width = 17
  /\ FeatureSize >= 17
  /\ call.outcome = "InvalidParameter"

\* C4: with an input that has a view and width and stride in range, forward
\* fails with ShapeMismatch exactly when the feature size is below the width;
\* backward, given output and gradOutput that have views, fails with
\* ShapeMismatch exactly when the feature size is below the width, or the two
\* views differ in a size or a stride, or the output's feature size is not
\* floor((N - W)/S) + 1; in every other case the kernel is invoked.
C4_ShapeMismatch ==
  LET outView == upcast(call.outputBefore, call.batchMode)
      gradView == upcast(call.gradOutput, call.batchMode)
      mismatch ==
        \/ FeatureSize < call.width
        \/ call.op = "backward" /\
             (\/ \E a \in 1..4 : \/ outView.size[a] # gradView.size[a]
                                 \/ outView.stride[a] # gradView.stride[a]
              \/ FloorOutputSize(FeatureSize, call.width, call.stride)
                   # outView.size[2])
  IN
  (/\ Called /\ HasView /\ WidthInRange /\ StrideInRange
   /\ call.op = "backward" => (outView # NoView /\ gradView # NoView)) =>
    /\ call.outcome = "ShapeMismatch" <=> mismatch
    /\ ~mismatch => (call.outcome = "ok" /\ KernelInvoked)

C4_Witness ==
  /\ call.op = "backward"
  /\ call.outcome = "ShapeMismatch"
  /\ call.msg = MsgSizes
  /\ call.gradOutput.size = call.outputBefore.size
  /\ call.gradOutput.stride # call.outputBefore.stride
  /\ call.input.size = <<2, 2>>
  /\ call.outputBefore.size = <<2, 1>>

\* C5: a call that fails validation leaves the output and gradInput tensors
\* exactly as they were and does not invoke the kernel.
C5_FailureLeavesBuffers ==
  (Called /\ Failed) =>
    /\ output = call.outputBefore
    /\ gradInput = call.gradInputBefore
    /\ ~KernelInvoked

C5_Witness ==
  /\ call.op = "forward"
  /\ call.outcome = "InvalidParameter"
  /\ HasView
  /\ output # EmptyTensor
  /\ output.size # resizeForOutput(output, call.input, call.batchMode,
                                   call.width, call.stride).size

\* C6: after a successful backward gradInput has the rank and the sizes of
\* the input whatever it had before, so it has the input's canonical shape
\* (the assertion holds), and the output tensor is as it was.
C6_BackwardShape ==
  call.op = "backward" =>
    /\ call.outcome # "AssertionFailure"
    /\ call.outcome = "ok" =>
         /\ gradInput.size = call.input.size
         /\ upcast(gradInput, call.batchMode) # NoView
         /\ upcast(gradInput, call.batchMode).size = call.kInput.size
         /\ call.kGradInput = upcast(gradInput, call.batchMode)
         /\ output = call.outputBefore

C6_Witness ==
  /\ call.op = "backward"
  /\ call.outcome = "ok"
  /\ call.gradInputBefore.size = <<1, 2, 1, 1>>
  /\ gradInput.size = <<2, 1>>

\* The output tensors a history of calls can leave: the empty tensor of a
\* fresh module, or a row-major tensor.
SessPriorOutputs == {EmptyTensor} \cup {Contig(s) : s \in SessShapes}

\* C7: the outcome of a forward call and, when it succeeds, the output it
\* leaves and the views it hands to the kernel are those the same call has
\* after any other history, that is on any other output tensor earlier calls
\* can have left.
C7_ForwardStateless ==
  call.op = "forward" =>
    /\ call.outputBefore \in SessPriorOutputs
    /\ \A prior \in SessPriorOutputs :
         LET r == updateOutput_result(prior, call.input, call.width,
                                      call.stride, call.batchMode)
         IN /\ r.outcome = call.outcome
            /\ r.msg = call.msg
            /\ r.outcome = "ok" =>
                 /\ r.output = output
                 /\ r.kInput = call.kInput
                 /\ r.kOutput = call.kOutput

C7_Witness ==
  /\ call.op = "forward"
  /\ call.outcome = "ok"
  /\ call.outputBefore # EmptyTensor
  /\ Len(call.outputBefore.size) # Len(output.size)

\* C8: for W in 2..16, S in 1..4 and N >= W, outputSize(N, W, S) is
\* floor((N - W)/S) + 1, is at least 1, every window k*S + t (k below it, t
\* below W) lies in 0..N-1, the window after the last would end past N-1, and
\* forward hands the kernel an output of that feature size.
C8_OutputSize ==
  (/\ call.op = "forward" /\ HasView /\ WidthInRange /\ StrideInRange
   /\ FeatureSize >= call.width) =>
    LET n == FeatureSize
        os == outputSize(n, call.width, call.stride)
    IN /\ os = FloorOutputSize(n, call.width, call.stride)
       /\ os >= 1
       /\ \A k \in 0..(os - 1), t \in 0..(call.width - 1) :
            k * call.stride + t \in 0..(n - 1)
       /\ os * call.stride + call.width - 1 > n - 1
       /\ KernelInvoked
       /\ call.kInput.size[2] = n
       /\ call.kOutput.size[2] = os

C8_Witness ==
  /\ call.op = "forward"
  /\ call.outcome = "ok"
  /\ call.width = 16
  /\ call.stride = 4
  /\ FeatureSize = 18
  /\ call.kOutput.size[2] = 1

\* C9: backward on the input, width, stride and batchMode of the forward
\* call that made the output, with a fresh row-major gradOutput of the
\* output's sizes, passes every check and reaches the kernel.
C9_BackwardAfterForward ==
  (/\ call.op = "backward"
   /\ producer.made
   /\ producer.input = call.input
   /\ producer.width = call.width
   /\ producer.stride = call.stride
   /\ producer.batchMode = call.batchMode
   /\ call.gradOutput = Contig(call.outputBefore.size)) =>
    call.outcome = "ok" /\ KernelInvoked

C9_Witness ==
  /\ call.op = "backward"
  /\ producer.made
  /\ producer.input = call.input
  /\ producer.width = call.width
  /\ producer.stride = call.stride
  /\ producer.batchMode = call.batchMode
  /\ call.gradOutput = Contig(call.outputBefore.size)
  /\ call.outcome = "ok"
  /\ Len(call.input.size) = 3

\* C10 as claimed: when backward invokes the kernel, gradInput has the
\* canonical shape of input, gradOutput that of output, and output's batch,
\* extra1 and extra2 sizes are the input's.
C10_ConsistentViews ==
  (call.op = "backward" /\ KernelInvoked) =>
    /\ call.kGradInput.size = call.kInput.size
    /\ call.kGradOutput.size = call.kOutput.size
    /\ \A a \in {1, 3, 4} : call.kOutput.size[a] = call.kInput.size[a]

====
